---- MODULE Spec2Model ----
(***************************************************************************)
(* XOR-SECUREMEM: the zeroizing buffers ZeroizeArray<N>,                   *)
(* ZeroizeBytesArray<N>, ZeroizeBytes and the encrypted memory cell        *)
(* EncryptedMem<N> of src/store.rs.                                        *)
(*                                                                         *)
(* A behaviour is the life of one object: Init constructs it with one of   *)
(* its constructors, the actions are its methods, and Drop ends it.  A     *)
(* byte buffer is modelled with its memory: `mem` holds the bytes that     *)
(* were written to the allocation, `len` the logical length, so that       *)
(* clearing a buffer and overwriting it are different things.              *)
(***************************************************************************)
EXTENDS Integers, Sequences, FiniteSets

VARIABLES self, last, encLog, released, panicked, calls

vars == <<self, last, encLog, released, panicked, calls>>

----------------------------------------------------------------------------
(* Program constants *)

XNONCE_LENGTH == 24

TAG_LENGTH == 16

KEY_LENGTH == 32

(* Bounds of the model *)

SmallN == 2

MaxCalls == 3

MaxSeed == 2

----------------------------------------------------------------------------
(* Inputs *)

Sizes == {SmallN, KEY_LENGTH}

ByteVals == {0, 4, 255}

Repeat(b, n) == [i \in 1..n |-> b]

Arrays(n) == {Repeat(b, n) : b \in ByteVals}

Keys == {Repeat(7, KEY_LENGTH), Repeat(9, KEY_LENGTH)}

AddedCapacities == {0, TAG_LENGTH, TAG_LENGTH + 4}

SetValues == {<<1, 2>>, <<3>>, Repeat(5, KEY_LENGTH)}

InsertIndexes(n) == {0, n - 1, n}

AllZero(s) == \A i \in 1..Len(s) : s[i] = 0

Max(a, b) == IF a >= b THEN a ELSE b

(* rng.fill(&mut buffer): the bytes a freshly seeded ChaCha8 generator may *)
(* write into a buffer of n bytes; one stream per seed.                    *)
rng_fill(n) == {[i \in 1..n |-> (seed * 89 + i * 31) % 256] : seed \in 1..MaxSeed}

----------------------------------------------------------------------------
(* bytes::BytesMut as the buffers use it *)

BytesMut_with_capacity(c) == [len |-> 0, cap |-> c, mem |-> <<>>]

Contents(b) == SubSeq(b.mem, 1, b.len)

(* BufMut::put: append at the logical end, writing over whatever the       *)
(* allocation held there.  `cap` is the capacity asked for so far: put     *)
(* reserves what is missing, so it never fails for want of room.           *)
BytesMut_put(b, value) ==
    [len |-> b.len + Len(value),
     cap |-> Max(b.cap, b.len + Len(value)),
     mem |-> Contents(b) \o value \o SubSeq(b.mem, b.len + Len(value) + 1, Len(b.mem))]

(* BytesMut::clear: set the length to 0; the memory is left as it is. *)
BytesMut_clear(b) == [b EXCEPT !.len = 0]

----------------------------------------------------------------------------
(* XChaCha8Poly1305 (crate chacha20poly1305) as encrypt and decrypt use    *)
(* it: a stream cipher, each byte xored with a key stream, followed by a   *)
(* 16-byte tag over the ciphertext; key stream and tag are keyed by the    *)
(* key and the nonce.  The digest stands for ChaCha8 and Poly1305; it is   *)
(* small enough to compute and separates the keys and nonces of the model. *)

RECURSIVE Xor(_, _)
Xor(a, b) ==
    IF a = 0 THEN b
    ELSE IF b = 0 THEN a
    ELSE 2 * Xor(a \div 2, b \div 2) + ((a + b) % 2)

(* A keyed digest of s[lo..hi], computed over halves *)
RECURSIVE Digest(_, _, _, _)
Digest(s, r, lo, hi) ==
    IF lo > hi THEN 1
    ELSE IF lo = hi THEN (s[lo] + r + lo) % 32749
    ELSE LET mid == (lo + hi) \div 2
         IN  (Digest(s, r, lo, mid) * r + 3 * Digest(s, r, mid + 1, hi) + 1) % 32749

Fold(s, r) == Digest(s, r, 1, Len(s))

KeyStream(key, nonce, i) ==
    (Fold(key, 31) + 7 * Fold(nonce, 37) + 13 * i) % 256

ApplyKeyStream(key, nonce, data) ==
    LET k == Fold(key, 31) + 7 * Fold(nonce, 37)
    IN  [i \in 1..Len(data) |-> Xor(data[i], (k + 13 * i) % 256)]

Tag(key, nonce, data) ==
    LET r == 2 + ((Fold(key, 131) + Fold(nonce, 137)) % 32747)
        t == (Fold(data, r) + Fold(key, 139)) % 32749
    IN  [i \in 1..TAG_LENGTH |-> IF i = 1 THEN t % 256
                                 ELSE IF i = 2 THEN t \div 256
                                 ELSE (t * i + i) % 256]

(* AeadInPlace::encrypt_in_place(nonce, b"", buffer): ciphertext || tag *)
encrypt_in_place(key, nonce, buffer) ==
    LET ct == ApplyKeyStream(key, nonce, buffer)
    IN  ct \o Tag(key, nonce, ct)

(* AeadInPlace::decrypt_in_place(nonce, b"", buffer): Err when the buffer  *)
(* is shorter than a tag or the tag does not verify, else the plaintext.   *)
decrypt_in_place(key, nonce, buffer) ==
    IF Len(buffer) < TAG_LENGTH
    THEN [ok |-> FALSE, buffer |-> buffer]
    ELSE LET ct  == SubSeq(buffer, 1, Len(buffer) - TAG_LENGTH)
             tag == SubSeq(buffer, Len(buffer) - TAG_LENGTH + 1, Len(buffer))
         IN  IF Tag(key, nonce, ct) = tag
             THEN [ok |-> TRUE, buffer |-> ApplyKeyStream(key, nonce, ct)]
             ELSE [ok |-> FALSE, buffer |-> buffer]

----------------------------------------------------------------------------
(* ZeroizeBytesArray<N>(BytesMut) *)

ZeroizeBytesArray_new(n) == BytesMut_with_capacity(n)

ZeroizeBytesArray_with_additional_capacity(n, capacity) ==
    BytesMut_with_capacity(n + capacity)

ZeroizeBytesArray_set(b, value) == BytesMut_put(b, value)

ZeroizeBytesArray_expose(b) == Contents(b)

ZeroizeBytesArray_zeroize(b) == BytesMut_clear(b)

(* Drop: zeroize, then the allocation is released as zeroize left it. *)
ZeroizeBytesArray_drop(b) == ZeroizeBytesArray_zeroize(b)

----------------------------------------------------------------------------
(* ZeroizeBytes(BytesMut) *)

ZeroizeBytes_new == BytesMut_with_capacity(0)

ZeroizeBytes_new_with_capacity(capacity) == BytesMut_with_capacity(capacity)

ZeroizeBytes_set(b, value) == BytesMut_put(b, value)

ZeroizeBytes_expose(b) == Contents(b)

ZeroizeBytes_zeroize(b) == BytesMut_clear(b)

ZeroizeBytes_drop(b) == ZeroizeBytes_zeroize(b)

----------------------------------------------------------------------------
(* ZeroizeArray<N>([u8; N]) *)

ZeroizeArray_new(value) == value

ZeroizeArray_zeroed(n) == Repeat(0, n)

ZeroizeArray_fill_from_slice(a, value) == value

ZeroizeArray_expose(a) == a

ZeroizeArray_expose_borrowed(a) == a

(* self.0[index] = value, index counted from 0; ArrayInsert panics when    *)
(* the index is not below N, as the indexing does.                         *)
ZeroizeArray_insert(a, index, value) == [a EXCEPT ![index + 1] = value]

ZeroizeArray_zeroize(a) == [i \in 1..Len(a) |-> 0]

ZeroizeArray_drop(a) == ZeroizeArray_zeroize(a)

(* Key::from_slice: a view of the bytes as a key, and a panic when their   *)
(* number is not the key length.                                           *)
Key_from_slice(bytes) ==
    IF Len(bytes) = KEY_LENGTH
    THEN [kind |-> "ok", value |-> bytes]
    ELSE [kind |-> "panic", value |-> <<>>]

ZeroizeArray_chacha_key(a) == Key_from_slice(a)

ZeroizeBytesArray_chacha_key(b) == Key_from_slice(Contents(b))

ZeroizeBytes_chacha_key(b) == Key_from_slice(Contents(b))

----------------------------------------------------------------------------
(* EncryptedMem<N> { ciphertext: ZeroizeBytesArray<N>, xnonce: XNonce } *)

EncryptedMem_new_with_added_capacity(n, capacity) ==
    {[kind |-> "EncryptedMem", N |-> n, status |-> "live",
      ciphertext |-> ZeroizeBytesArray_with_additional_capacity(n, capacity),
      xnonce |-> nonce_buffer] : nonce_buffer \in rng_fill(XNONCE_LENGTH)}

EncryptedMem_new(n) ==
    {[kind |-> "EncryptedMem", N |-> n, status |-> "live",
      ciphertext |-> ZeroizeBytesArray_with_additional_capacity(n, 16),
      xnonce |-> nonce_buffer] : nonce_buffer \in rng_fill(XNONCE_LENGTH)}

EncryptedMem_ciphertext(s) == s.ciphertext

(* encrypt as it would be if the buffer were put into the stored array     *)
(* instead of a new one.                                                   *)
EncryptedMem_encrypt_append(s, plaintext, key) ==
    LET buffer == encrypt_in_place(key, s.xnonce,
                                   ZeroizeArray_expose_borrowed(plaintext))
    IN  [s EXCEPT !.ciphertext = ZeroizeBytesArray_set(@, buffer)]

(* encrypt as it would be if it stepped the nonce after using it. *)
EncryptedMem_encrypt_step_nonce(s, plaintext, key) ==
    LET buffer == encrypt_in_place(key, s.xnonce,
                                   ZeroizeArray_expose_borrowed(plaintext))
    IN  [s EXCEPT !.ciphertext = ZeroizeBytesArray_set(
                                     ZeroizeBytesArray_with_additional_capacity(s.N, 16),
                                     buffer),
                  !.xnonce = [i \in 1..Len(@) |-> (@[i] + 1) % 256]]

(* encrypt: the plaintext is encrypted in a buffer of its own, the buffer  *)
(* is put into a new, empty ZeroizeBytesArray, and that array takes the    *)
(* place of self.ciphertext.                                               *)
EncryptedMem_encrypt(s, plaintext, key) ==
    LET buffer     == encrypt_in_place(key, s.xnonce,
                                       ZeroizeArray_expose_borrowed(plaintext))
        ciphertext == ZeroizeBytesArray_set(
                          ZeroizeBytesArray_with_additional_capacity(s.N, 16),
                          buffer)
    IN  [s EXCEPT !.ciphertext = ciphertext]

(* decrypt as it would be if it read the zeroed nonce_buffer of new()      *)
(* instead of self.xnonce.                                                 *)
EncryptedMem_decrypt_zeroed_nonce(s, key) ==
    LET r == decrypt_in_place(key, Repeat(0, XNONCE_LENGTH),
                              ZeroizeBytesArray_expose(s.ciphertext))
    IN  IF r.ok THEN [kind |-> "ok", value |-> r.buffer]
        ELSE [kind |-> "panic", value |-> <<>>]

(* decrypt: a copy of the stored bytes is decrypted in place; unwrap()     *)
(* panics when the cipher returns Err.                                     *)
EncryptedMem_decrypt(s, key) ==
    LET r == decrypt_in_place(key, s.xnonce,
                              ZeroizeBytesArray_expose(s.ciphertext))
    IN  IF r.ok THEN [kind |-> "ok", value |-> r.buffer]
        ELSE [kind |-> "panic", value |-> <<>>]

----------------------------------------------------------------------------
(* csprng(): the bytes drawn are copied into the new buffer *)

ZeroizeArray_csprng(n) == {ZeroizeArray_new(buffer) : buffer \in rng_fill(n)}

ZeroizeBytesArray_csprng(n) ==
    {BytesMut_put(BytesMut_with_capacity(n), buffer) : buffer \in rng_fill(n)}

ZeroizeBytes_csprng(n) ==
    {BytesMut_put(BytesMut_with_capacity(n), buffer) : buffer \in rng_fill(n)}

----------------------------------------------------------------------------
(* The state: `self` is the object, `last` the last call made on it and    *)
(* what it returned, `encLog` the encrypt calls made so far (key, nonce    *)
(* and plaintext of each), `released` the memory of the ciphertext buffer  *)
(* that the last encrypt dropped, `panicked` whether a call has panicked   *)
(* (only destructors run after that), `calls` the number of mutating calls.*)

Call(op, arg, kind, value) == [op |-> op, arg |-> arg, kind |-> kind, value |-> value]

Buffer(kind, n, buf) == [kind |-> kind, N |-> n, status |-> "live", buf |-> buf]

Constructed ==
    (UNION {EncryptedMem_new(n) : n \in Sizes})
    \cup (UNION {EncryptedMem_new_with_added_capacity(n, c) :
                    n \in Sizes, c \in AddedCapacities})
    \cup {Buffer("ZeroizeArray", n, ZeroizeArray_zeroed(n)) : n \in Sizes}
    \cup (UNION {{Buffer("ZeroizeArray", n, ZeroizeArray_new(v)) : v \in Arrays(n)} :
                    n \in Sizes})
    \cup (UNION {{Buffer("ZeroizeArray", n, a) : a \in ZeroizeArray_csprng(n)} :
                    n \in Sizes})
    \cup {Buffer("ZeroizeBytesArray", n, ZeroizeBytesArray_new(n)) : n \in Sizes}
    \cup {Buffer("ZeroizeBytesArray", n,
                 ZeroizeBytesArray_with_additional_capacity(n, c)) :
                    n \in Sizes, c \in AddedCapacities}
    \cup (UNION {{Buffer("ZeroizeBytesArray", n, b) : b \in ZeroizeBytesArray_csprng(n)} :
                    n \in Sizes})
    \cup {Buffer("ZeroizeBytes", 0, ZeroizeBytes_new)}
    \cup {Buffer("ZeroizeBytes", 0, ZeroizeBytes_new_with_capacity(c)) :
                    c \in AddedCapacities}
    \cup (UNION {{Buffer("ZeroizeBytes", 0, b) : b \in ZeroizeBytes_csprng(n)} :
                    n \in Sizes})

Init ==
    /\ self \in Constructed
    /\ last = Call("new", <<>>, "ok", <<>>)
    /\ encLog = <<>>
    /\ released = <<>>
    /\ panicked = FALSE
    /\ calls = 0

Live(kind) == self.kind = kind /\ self.status = "live" /\ ~panicked

(* A call that reads: only `last` changes; a panic is recorded. *)
Returns(op, arg, r) ==
    /\ last' = Call(op, arg, r.kind, r.value)
    /\ panicked' = (r.kind = "panic")
    /\ UNCHANGED <<self, encLog, released, calls>>

----------------------------------------------------------------------------
(* EncryptedMem *)

Encrypt ==
    /\ Live("EncryptedMem")
    /\ calls < MaxCalls
    /\ \E plaintext \in Arrays(self.N), key \in Keys :
          /\ self' = EncryptedMem_encrypt(self, plaintext, key)
          /\ released' = ZeroizeBytesArray_drop(self.ciphertext).mem
          /\ encLog' = Append(encLog, [key |-> key, nonce |-> self.xnonce,
                                       plaintext |-> plaintext])
          /\ last' = Call("encrypt", key, "ok", <<>>)
    /\ calls' = calls + 1
    /\ UNCHANGED panicked

Decrypt ==
    /\ Live("EncryptedMem")
    /\ \E key \in Keys : Returns("decrypt", key, EncryptedMem_decrypt(self, key))

Ciphertext ==
    /\ Live("EncryptedMem")
    /\ Returns("ciphertext", <<>>,
               [kind |-> "ok",
                value |-> ZeroizeBytesArray_expose(EncryptedMem_ciphertext(self))])

DropEncryptedMem ==
    /\ self.kind = "EncryptedMem" /\ self.status = "live"
    /\ self' = [self EXCEPT !.status = "dropped",
                            !.ciphertext = ZeroizeBytesArray_drop(@)]
    /\ last' = Call("drop", <<>>, "ok", <<>>)
    /\ UNCHANGED <<encLog, released, panicked, calls>>

----------------------------------------------------------------------------
(* ZeroizeArray *)

ArrayFillFromSlice ==
    /\ Live("ZeroizeArray")
    /\ calls < MaxCalls
    /\ \E value \in Arrays(self.N) :
          /\ self' = [self EXCEPT !.buf = ZeroizeArray_fill_from_slice(@, value)]
          /\ last' = Call("fill_from_slice", value, "ok", <<>>)
    /\ calls' = calls + 1
    /\ UNCHANGED <<encLog, released, panicked>>

ArrayInsert ==
    /\ Live("ZeroizeArray")
    /\ calls < MaxCalls
    /\ \E index \in InsertIndexes(self.N), value \in ByteVals :
          IF index < self.N
          THEN /\ self' = [self EXCEPT !.buf = ZeroizeArray_insert(@, index, value)]
               /\ last' = Call("insert", <<index, value>>, "ok", <<>>)
               /\ UNCHANGED panicked
          ELSE /\ last' = Call("insert", <<index, value>>, "panic", <<>>)
               /\ panicked' = TRUE
               /\ UNCHANGED self
    /\ calls' = calls + 1
    /\ UNCHANGED <<encLog, released>>

ArrayExpose ==
    /\ Live("ZeroizeArray")
    /\ Returns("expose", <<>>, [kind |-> "ok", value |-> ZeroizeArray_expose(self.buf)])

ArrayChachaKey ==
    /\ Live("ZeroizeArray")
    /\ Returns("chacha_key", <<>>, ZeroizeArray_chacha_key(self.buf))

ArrayZeroize ==
    /\ Live("ZeroizeArray")
    /\ self' = [self EXCEPT !.buf = ZeroizeArray_zeroize(@)]
    /\ last' = Call("zeroize", <<>>, "ok", <<>>)
    /\ UNCHANGED <<encLog, released, panicked, calls>>

ArrayDrop ==
    /\ self.kind = "ZeroizeArray" /\ self.status = "live"
    /\ self' = [self EXCEPT !.status = "dropped", !.buf = ZeroizeArray_drop(@)]
    /\ last' = Call("drop", <<>>, "ok", <<>>)
    /\ UNCHANGED <<encLog, released, panicked, calls>>

----------------------------------------------------------------------------
(* ZeroizeBytesArray *)

SizedSet ==
    /\ Live("ZeroizeBytesArray")
    /\ calls < MaxCalls
    /\ \E value \in SetValues :
          /\ self' = [self EXCEPT !.buf = ZeroizeBytesArray_set(@, value)]
          /\ last' = Call("set", value, "ok", <<>>)
    /\ calls' = calls + 1
    /\ UNCHANGED <<encLog, released, panicked>>

SizedExpose ==
    /\ Live("ZeroizeBytesArray")
    /\ Returns("expose", <<>>,
               [kind |-> "ok", value |-> ZeroizeBytesArray_expose(self.buf)])

SizedChachaKey ==
    /\ Live("ZeroizeBytesArray")
    /\ Returns("chacha_key", <<>>, ZeroizeBytesArray_chacha_key(self.buf))

SizedZeroize ==
    /\ Live("ZeroizeBytesArray")
    /\ self' = [self EXCEPT !.buf = ZeroizeBytesArray_zeroize(@)]
    /\ last' = Call("zeroize", <<>>, "ok", <<>>)
    /\ UNCHANGED <<encLog, released, panicked, calls>>

SizedDrop ==
    /\ self.kind = "ZeroizeBytesArray" /\ self.status = "live"
    /\ self' = [self EXCEPT !.status = "dropped", !.buf = ZeroizeBytesArray_drop(@)]
    /\ last' = Call("drop", <<>>, "ok", <<>>)
    /\ UNCHANGED <<encLog, released, panicked, calls>>

----------------------------------------------------------------------------
(* ZeroizeBytes *)

BytesSet ==
    /\ Live("ZeroizeBytes")
    /\ calls < MaxCalls
    /\ \E value \in SetValues :
          /\ self' = [self EXCEPT !.buf = ZeroizeBytes_set(@, value)]
          /\ last' = Call("set", value, "ok", <<>>)
    /\ calls' = calls + 1
    /\ UNCHANGED <<encLog, released, panicked>>

BytesExpose ==
    /\ Live("ZeroizeBytes")
    /\ Returns("expose", <<>>, [kind |-> "ok", value |-> ZeroizeBytes_expose(self.buf)])

BytesChachaKey ==
    /\ Live("ZeroizeBytes")
    /\ Returns("chacha_key", <<>>, ZeroizeBytes_chacha_key(self.buf))

BytesZeroize ==
    /\ Live("ZeroizeBytes")
    /\ self' = [self EXCEPT !.buf = ZeroizeBytes_zeroize(@)]
    /\ last' = Call("zeroize", <<>>, "ok", <<>>)
    /\ UNCHANGED <<encLog, released, panicked, calls>>

BytesDrop ==
    /\ self.kind = "ZeroizeBytes" /\ self.status = "live"
    /\ self' = [self EXCEPT !.status = "dropped", !.buf = ZeroizeBytes_drop(@)]
    /\ last' = Call("drop", <<>>, "ok", <<>>)
    /\ UNCHANGED <<encLog, released, panicked, calls>>

----------------------------------------------------------------------------
Next ==
    \/ Encrypt \/ Decrypt \/ Ciphertext \/ DropEncryptedMem
    \/ ArrayFillFromSlice \/ ArrayInsert \/ ArrayExpose \/ ArrayChachaKey
    \/ ArrayZeroize \/ ArrayDrop
    \/ SizedSet \/ SizedExpose \/ SizedChachaKey \/ SizedZeroize \/ SizedDrop
    \/ BytesSet \/ BytesExpose \/ BytesChachaKey \/ BytesZeroize \/ BytesDrop

Spec == Init /\ [][Next]_vars

TypeOK ==
    /\ self.kind \in {"EncryptedMem", "ZeroizeArray", "ZeroizeBytesArray", "ZeroizeBytes"}
    /\ self.status \in {"live", "dropped"}
    /\ panicked \in BOOLEAN
    /\ calls \in 0..MaxCalls

----------------------------------------------------------------------------
(* Properties *)

IsCell == self.kind = "EncryptedMem"

IsBuffer == self.kind \in {"ZeroizeArray", "ZeroizeBytesArray", "ZeroizeBytes"}

IsBytesBuffer == self.kind \in {"ZeroizeBytesArray", "ZeroizeBytes"}

LastEncrypt == encLog[Len(encLog)]

(* The memory that holds, or held, the contents of a buffer *)
Memory(s) == IF s.kind = "ZeroizeArray" THEN s.buf ELSE s.buf.mem

(* The bytes expose() gives *)
Exposed(s) == IF s.kind = "ZeroizeArray" THEN s.buf ELSE Contents(s.buf)

(* C1: round trip. On a cell that has been encrypted once, decrypt with    *)
(* the key of that encrypt returns exactly the plaintext: N bytes, no tag. *)
C1_RoundTrip ==
    (IsCell /\ last.op = "decrypt" /\ Len(encLog) = 1 /\ last.arg = encLog[1].key)
        => (last.kind = "ok" /\ last.value = encLog[1].plaintext
            /\ Len(last.value) = self.N)

C1_Witness ==
    /\ IsCell /\ last.op = "decrypt" /\ Len(encLog) = 1
    /\ last.arg = encLog[1].key
    /\ self.N = KEY_LENGTH
    /\ last.kind = "ok"
    /\ last.value = Repeat(4, KEY_LENGTH)

(* C2: decrypt with a key other than the key of the last encrypt fails     *)
(* with AuthenticationFailure, a result returned to the caller, and gives  *)
(* no plaintext.                                                           *)
C2_AuthenticationFailureReturned ==
    (IsCell /\ last.op = "decrypt" /\ Len(encLog) >= 1 /\ last.arg # LastEncrypt.key)
        => (last.kind = "AuthenticationFailure" /\ last.value = <<>>)

(* C3: no two encrypt calls on one cell with the same key and different    *)
(* plaintexts use the same nonce.                                          *)
C3_NonceNotReused ==
    \A i, j \in 1..Len(encLog) :
        (encLog[i].key = encLog[j].key /\ encLog[i].plaintext # encLog[j].plaintext)
            => encLog[i].nonce # encLog[j].nonce

(* C4: after zeroize or drop of a buffer of any of the three kinds, every  *)
(* byte of the memory that held its contents is zero.                      *)
C4_ZeroedOnDestroy ==
    (IsBuffer /\ last.op \in {"zeroize", "drop"}) => AllZero(Memory(self))

(* C5: after set(b) on a ZeroizeBytesArray or a ZeroizeBytes, expose()     *)
(* gives exactly b, and nothing of the earlier contents is left in the     *)
(* buffer's memory.                                                        *)
C5_SetReplaces ==
    (IsBytesBuffer /\ last.op = "set")
        => /\ Exposed(self) = last.arg
           /\ AllZero(SubSeq(self.buf.mem, self.buf.len + 1, Len(self.buf.mem)))

(* C6: after any sequence of encrypt calls the stored ciphertext is the    *)
(* ciphertext and tag of the last call, the ciphertext buffer it replaced  *)
(* has been zeroed, and decrypt with the last key gives the last plaintext.*)
C6_ReencryptReplaces ==
    (IsCell /\ self.status = "live" /\ Len(encLog) >= 1)
        => /\ ZeroizeBytesArray_expose(EncryptedMem_ciphertext(self))
                = encrypt_in_place(LastEncrypt.key, LastEncrypt.nonce,
                                   LastEncrypt.plaintext)
           /\ AllZero(released)
           /\ (last.op = "decrypt" /\ last.arg = LastEncrypt.key)
                => (last.kind = "ok" /\ last.value = LastEncrypt.plaintext)

(* C7: in every state of a live cell after at least one encrypt, the       *)
(* length of ciphertext().expose() is N + 16.                              *)
C7_CiphertextLength ==
    (IsCell /\ self.status = "live" /\ Len(encLog) >= 1)
        => Len(ZeroizeBytesArray_expose(EncryptedMem_ciphertext(self)))
              = self.N + TAG_LENGTH

C7_Witness ==
    /\ IsCell /\ self.status = "live"
    /\ Len(encLog) >= 2
    /\ last.op = "decrypt"
    /\ Len(ZeroizeBytesArray_expose(EncryptedMem_ciphertext(self))) = KEY_LENGTH + TAG_LENGTH

(* C8: chacha_key on a buffer whose length is not 32 fails with            *)
(* InvalidKeyLength returned to the caller, and gives a key view only when *)
(* the length is 32.                                                       *)
C8_InvalidKeyLengthReturned ==
    (IsBuffer /\ last.op = "chacha_key")
        => /\ Len(Exposed(self)) # KEY_LENGTH => last.kind = "InvalidKeyLength"
           /\ last.kind = "ok" => (Len(Exposed(self)) = KEY_LENGTH
                                   /\ last.value = Exposed(self))

(* C9: the nonce of a cell has 24 bytes and no operation changes it. *)
C9_NonceFixed ==
    [][IsCell => (self'.xnonce = self.xnonce /\ Len(self'.xnonce) = XNONCE_LENGTH)]_vars

C9_Witness ==
    /\ IsCell
    /\ Len(encLog) >= 2 /\ encLog[1].plaintext # encLog[2].plaintext
    /\ last.op = "decrypt" /\ last.kind = "ok"
    /\ self.xnonce = encLog[1].nonce

(* C10: zeroize called on a buffer that zeroize has just been called on    *)
(* (or drop after zeroize) leaves the buffer as it was, and that state is  *)
(* the all-zero state.                                                     *)
C10_IdempotentClear ==
    [][(IsBuffer /\ last.op = "zeroize" /\ last'.op \in {"zeroize", "drop"})
          => (self'.buf = self.buf /\ AllZero(Memory(self')))]_vars

====
